---- MODULE Spec2Model ----
(***************************************************************************)
(* Multi-agent orchestration core: the three orchestrators                 *)
(* (MultiAgentWorkflow, LangGraphMultiAgent, ProductionMultiAgent), the    *)
(* single-agent pipeline (WeaveAgent), the keyword routers and the two     *)
(* capability registries (ToolRegistry, MCPServer).                        *)
(*                                                                         *)
(* A query is abstracted to the set of routing keywords that occur in its  *)
(* lower-cased text (every router only tests `kw in query_lower`) and its  *)
(* whitespace token count (`len(query.split())`).  No routing keyword is a *)
(* substring of another, so every keyword set is the abstraction of some   *)
(* query string.                                                           *)
(***************************************************************************)
EXTENDS Integers, Sequences, FiniteSets, TLC

\* ------------------------------------------------------------------ bounds
MaxQueries == 1     \* process_query / process calls made in one behaviour

\* ------------------------------------------------------ program constants
LowWords  == 5      \* len(query.split()) < 5  -> complexity "low"
HighWords == 20     \* len(query.split()) > 20 -> complexity "high"

\* ------------------------------------------------------------------ inputs
\* Words drawn for queries: a sample of the keywords the routers test.
Vocabulary ==
  {"calculate", "+", "weather", "time", "find", "research", "analyze",
   "write"}

\* Keyword sets of the queries: none, one or two of the words, and two
\* three-word queries (a three-specialist chain; a two-specialist plan in a
\* query that also names a tool).
KwSets ==
  {s \in SUBSET Vocabulary : Cardinality(s) <= 2}
    \cup {{"research", "analyze", "write"}, {"weather", "research", "write"}}

\* Token counts drawn for queries: a short and a longer query.
WordCounts == {3, 12}

Queries == {[kw |-> k, words |-> w] : k \in KwSets, w \in WordCounts}

None == "None"

\* The text the completion service returns for one prompt (the prompts of
\* different specialists get different texts).
LLMResponse(name) == "llm_" \o name

\* ------------------------------------------------------------ small helpers
Matches(q, kws) == q.kw \cap kws # {}

RECURSIVE SeqToSet(_)
SeqToSet(s) == IF s = <<>> THEN {} ELSE {Head(s)} \cup SeqToSet(Tail(s))

\* dict[key] = value on an insertion-ordered dict kept as a sequence of
\* records with a `name` field: replace in place, or append.
Put(d, rec) ==
  IF \E j \in 1..Len(d) : d[j].name = rec.name
  THEN [j \in 1..Len(d) |-> IF d[j].name = rec.name THEN rec ELSE d[j]]
  ELSE Append(d, rec)

Keys(d) == [j \in 1..Len(d) |-> d[j].name]

\* ------------------------------------------------------------ registries
Specialties == <<"research", "analysis", "writing", "technical">>
SpecialistNames == SeqToSet(Specialties)

\* ToolRegistry._register_default_tools, registration order
DefaultTools == <<"web_search", "calculator", "weather", "time">>
ToolNames == SeqToSet(DefaultTools)

\* MCPServer._register_default_tools, registration order
MCPDefaultTools == <<"calculator", "weather", "time", "research">>
MCPToolNames == SeqToSet(MCPDefaultTools)

\* One ToolRegistry per SpecialistAgent and one for the WeaveAgent.
Owners == SpecialistNames \cup {"agent"}

\* ToolRegistry.register_tool: a fresh entry.
register_tool == [usage_count |-> 0, success_count |-> 0, error_count |-> 0]

\* MCPServer.register_tool: fresh usage_stats.
mcp_register_tool == [calls |-> 0, success |-> 0, errors |-> 0]

HandlerOutcomes == {"return", "raise"}

\* ToolRegistry.execute on a registered tool: the counters after the call.
execute_lost_error(reg, tool_name, outcome) ==
  [reg EXCEPT ![tool_name] =
      [usage_count   |-> @.usage_count + 1,
       success_count |-> IF outcome = "raise" THEN @.success_count
                                              ELSE @.success_count + 1,
       error_count   |-> @.error_count]]

execute(reg, tool_name, outcome) ==
  [reg EXCEPT ![tool_name] =
      [usage_count   |-> @.usage_count + 1,
       success_count |-> IF outcome = "raise" THEN @.success_count
                                              ELSE @.success_count + 1,
       error_count   |-> IF outcome = "raise" THEN @.error_count + 1
                                              ELSE @.error_count]]

\* The value ToolRegistry.execute hands back.
execute_result(tool_name, outcome) ==
  [name |-> tool_name, error |-> (outcome = "raise")]

\* MCPServer.call_tool on a registered tool: usage_stats after the call.
call_tool(stats, tool_name, outcome) ==
  [stats EXCEPT ![tool_name] =
      [calls   |-> @.calls + 1,
       success |-> IF outcome = "raise" THEN @.success ELSE @.success + 1,
       errors  |-> IF outcome = "raise" THEN @.errors + 1 ELSE @.errors]]

\* MCPServer.call_tool: does the handler's exception leave call_tool?  The
\* `except Exception` clause takes it, so it does not.
call_tool_reraises(outcome) == outcome = "raise"

call_tool_raises(outcome) == FALSE

\* The envelope MCPServer.call_tool hands back.
call_tool_result(tool_name, outcome) ==
  [name |-> tool_name, error |-> (outcome = "raise")]

\* expressions handed to the calculators, by what becomes of them: accepted
\* and evaluated, rejected for a character outside the allowed set, or
\* accepted but raising inside eval (as "1/0" does)
Expressions == {"valid", "invalid_characters", "not_evaluable"}

\* ToolRegistry._calculator: every failure is returned as {"error": ...}
_calculator(expression) ==
  [outcome |-> "return", error |-> (expression # "valid")]

\* MCPServer._calculator_handler: every failure is raised
_calculator_handler(expression) ==
  [outcome |-> IF expression = "valid" THEN "return" ELSE "raise",
   error |-> FALSE]

\* a dict with one more entry, or with the entry under that name replaced
SetItem(d, name, entry) ==
  [n \in DOMAIN d \cup {name} |-> IF n = name THEN entry ELSE d[n]]

\* ToolRegistry.execute, any tool name: the counters afterwards
ToolRegistry_execute_counts_unknown(reg, tool_name, outcome) ==
  IF tool_name \notin DOMAIN reg
    THEN SetItem(reg, tool_name,
                 [usage_count |-> 1, success_count |-> 0, error_count |-> 1])
    ELSE execute(reg, tool_name, outcome)

ToolRegistry_execute(reg, tool_name, outcome) ==
  IF tool_name \notin DOMAIN reg THEN reg
  ELSE execute(reg, tool_name, outcome)

\* MCPServer.call_tool, any tool name: usage_stats afterwards
MCPServer_call_tool(stats, tool_name, outcome) ==
  IF tool_name \notin DOMAIN stats THEN stats
  ELSE call_tool(stats, tool_name, outcome)

\* ---------------------------------------------------------------- routers
\* SpecialistAgent._detect_and_execute_tools: tools_to_use
detect_tools(q) ==
     (IF Matches(q, {"weather"}) THEN <<"weather">> ELSE <<>>)
  \o (IF Matches(q, {"calculate", "math", "+", "-", "*", "/", "="})
        THEN <<"calculator">> ELSE <<>>)
  \o (IF Matches(q, {"search", "find"}) THEN <<"web_search">> ELSE <<>>)
  \o (IF Matches(q, {"time"}) THEN <<"time">> ELSE <<>>)

\* The capabilities of the rules a query matches, in rule order.
RECURSIVE Matched(_, _)
Matched(rules, q) ==
  IF rules = <<>> THEN <<>>
  ELSE (IF Matches(q, Head(rules).kws) THEN <<Head(rules).cap>> ELSE <<>>)
         \o Matched(Tail(rules), q)

\* WeaveAgent.select_tools: the keyword tests, in order
ToolRules ==
  << [kws |-> {"weather"}, cap |-> "weather"],
     [kws |-> {"calculate", "math", "+", "-", "*", "/", "="},
      cap |-> "calculator"],
     [kws |-> {"search", "find", "look up"}, cap |-> "web_search"],
     [kws |-> {"time"}, cap |-> "time"] >>

\* WeaveAgent.select_tools, keyword part: independent `if`s
select_tools(q) == Matched(ToolRules, q)

\* CoordinatorAgent.analyze_task, mock branch: the keyword tests, in order
WorkflowRules ==
  << [kws |-> {"research", "information", "data"}, cap |-> "research"],
     [kws |-> {"analyze", "analysis", "insights"}, cap |-> "analysis"],
     [kws |-> {"write", "document", "report"}, cap |-> "writing"],
     [kws |-> {"technical", "implement", "code"}, cap |-> "technical"] >>

\* CoordinatorAgent.analyze_task, mock branch: execution_order
analyze_task_mock(q) ==
  LET needed == Matched(WorkflowRules, q)
  IN IF needed = <<>> THEN SubSeq(Specialties, 1, 1) ELSE needed

\* CoordinatorAgent.coordinate_specialists: is_simple_query
is_simple_query(q) ==
  \/ Matches(q, {"calculate"}) \/ Matches(q, {"+", "-", "*", "/"})
  \/ Matches(q, {"weather"})
  \/ Matches(q, {"time"})

\* EnhancedProductionAgent._analyze_and_store_task: complexity
Complexity(q) ==
  IF q.words > HighWords THEN "high"
  ELSE IF q.words < LowWords THEN "low"
  ELSE "medium"

\* EnhancedProductionAgent._analyze_and_store_task: the keyword tests, in
\* order
EnhancedRules ==
  << [kws |-> {"calculate", "math", "+", "-", "*", "/"}, cap |-> "calculator"],
     [kws |-> {"search", "find"}, cap |-> "web_search"],
     [kws |-> {"weather"}, cap |-> "weather"],
     [kws |-> {"time"}, cap |-> "time"] >>

\* EnhancedProductionAgent._analyze_and_store_task: task_type, required_tools
analyze_and_store_task(q) ==
  LET tt == IF Matches(q, {"calculate", "math", "+", "-", "*", "/"})
              THEN <<"mathematical", <<"calculator">> >>
            ELSE IF Matches(q, {"search", "find"})
              THEN <<"information_retrieval", <<"web_search">> >>
            ELSE IF Matches(q, {"weather"})
              THEN <<"weather_query", <<"weather">> >>
            ELSE IF Matches(q, {"time"})
              THEN <<"time_query", <<"time">> >>
            ELSE <<"general", <<>> >>
  IN [task_type |-> tt[1], complexity |-> Complexity(q),
      required_tools |-> tt[2]]

\* LangGraphMultiAgent.coordinator_node: route
langgraph_route_default_synthesize(q) ==
  IF Matches(q, {"calculate", "+", "-", "*", "/", "math"}) THEN "tools"
  ELSE IF Matches(q, {"weather"}) THEN "tools"
  ELSE IF Matches(q, {"time"}) THEN "tools"
  ELSE IF Matches(q, {"research", "find", "information"}) THEN "research"
  ELSE IF Matches(q, {"analyze", "analysis", "insights"}) THEN "analysis"
  ELSE IF Matches(q, {"write", "document", "report"}) THEN "writing"
  ELSE "synthesize"

langgraph_route(q) ==
  IF Matches(q, {"calculate", "+", "-", "*", "/", "math"}) THEN "tools"
  ELSE IF Matches(q, {"weather"}) THEN "tools"
  ELSE IF Matches(q, {"time"}) THEN "tools"
  ELSE IF Matches(q, {"research", "find", "information"}) THEN "research"
  ELSE IF Matches(q, {"analyze", "analysis", "insights"}) THEN "analysis"
  ELSE IF Matches(q, {"write", "document", "report"}) THEN "writing"
  ELSE "research"

\* ProductionMultiAgent.coordinator_node: the keyword tests, in order
ProductionRules ==
  << [kws |-> {"calculate", "+", "-", "*", "/", "math"},
      route |-> "mcp_tools", cap |-> "calculator"],
     [kws |-> {"weather"}, route |-> "mcp_tools", cap |-> "weather"],
     [kws |-> {"time"}, route |-> "mcp_tools", cap |-> "time"],
     [kws |-> {"research", "find", "information", "search"},
      route |-> "research", cap |-> "research"],
     [kws |-> {"analyze", "analysis", "insights", "examine"},
      route |-> "analysis", cap |-> "analysis"],
     [kws |-> {"write", "document", "report", "create"},
      route |-> "writing", cap |-> "writing"] >>

\* ProductionMultiAgent.coordinator_node: <<route, tool_type>>, an
\* if/elif chain: the first matching rule decides
production_route_operators_only(q) ==
  LET rules == [ProductionRules EXCEPT ![1].kws = @ \ {"calculate"}]
      hits  == {k \in 1..Len(rules) : Matches(q, rules[k].kws)}
  IN IF hits = {} THEN <<"research", "general">>
     ELSE LET k == CHOOSE k \in hits : \A j \in hits : k <= j
          IN <<rules[k].route, rules[k].cap>>

production_route(q) ==
  LET hits == {k \in 1..Len(ProductionRules) :
                 Matches(q, ProductionRules[k].kws)}
  IN IF hits = {} THEN <<"research", "general">>
     ELSE LET k == CHOOSE k \in hits : \A j \in hits : k <= j
          IN <<ProductionRules[k].route, ProductionRules[k].cap>>

\* agents_needed of both coordinator_node's
agents_needed(route) ==
  CASE route = "tools"     -> <<"tool_executor">>
    [] route = "mcp_tools" -> <<"mcp_executor">>
    [] route = "research"  -> <<"research_agent">>
    [] route = "analysis"  -> <<"analysis_agent">>
    [] route = "writing"   -> <<"writing_agent">>
    [] OTHER               -> <<>>

\* _build_graph: the conditional edges leaving "coordinator"
conditional_edges(o, route) ==
  CASE route = "research"   -> "research_agent"
    [] route = "analysis"   -> "analysis_agent"
    [] route = "writing"    -> "writing_agent"
    [] route = "tools" /\ o = "langgraph"      -> "tool_executor"
    [] route = "mcp_tools" /\ o = "production" -> "mcp_executor"
    [] route = "synthesize" -> "synthesizer"

\* tool_executor_node / mcp_executor_node: the one tool the node calls
executor_tool(q) ==
  IF Matches(q, {"calculate", "+", "-", "*", "/", "math"}) THEN "calculator"
  ELSE IF Matches(q, {"weather"}) THEN "weather"
  ELSE IF Matches(q, {"time"}) THEN "time"
  ELSE "research"

\* key under which the executor node files its result
executor_key(o) == IF o = "production" THEN "mcp_tools" ELSE "tools"

\* ------------------------------------------------------------------ stages
\* Position in process_query -> stage of the per-query state machine.
Stage(p) ==
  CASE p \in {"analyze_task", "coordinator", "select_tools"} -> "ROUTING"
    [] p \in {"coordinate_specialists", "specialized_process",
              "research_agent", "analysis_agent", "writing_agent",
              "tool_executor", "mcp_executor", "execute_tools"}
                                                      -> "EXECUTING"
    [] p \in {"synthesize_results", "synthesizer", "generate_response"}
                                                      -> "SYNTHESIZING"
    [] p \in {"return", "done"}                       -> "DONE"
    [] p = "failed"                                   -> "FAILED"
    [] p = "raised"                                   -> "RAISED"
    [] OTHER                                          -> "IDLE"

Orchestrators == {"workflow", "langgraph", "production", "agent"}

\* first statement of process_query / process
Entry(o) ==
  CASE o = "workflow" -> "analyze_task"
    [] o = "agent"    -> "select_tools"
    [] OTHER          -> "coordinator"

\* ------------------------------------------------------- context manager
MaxClock == 1
MaxUses == 2
MaxLinks == 2

\* a dict with no entries
EmptyDict == [k \in {} |-> None]

\* WeaveProtocol(agent_id="enhanced-production-agent")
AgentId == "enhanced-production-agent"

\* EnhancedProductionAgent._setup_context_templates: the templates it defines
SetupTemplates == {"conversation", "task", "performance"}

\* template names a caller passes: one the setup defined, one it did not
TemplateNames == {"task", "custom"}

\* template names a caller defines
NewTemplateNames == {"custom"}

\* schema and payload dicts, by identity of their content
Schemas == {"schema_b"}
Payloads == {"data_a", "data_b"}

\* MCPContextManager.create_context_template: context_templates afterwards
create_context_template(templates, template_name, schema, now) ==
  [n \in DOMAIN templates \cup {template_name} |->
     IF n = template_name
       THEN [schema |-> schema, created_at |-> now, usage_count |-> 0]
       ELSE templates[n]]

\* context_key = f"{template_name}-{int(time.time())}"
context_key(template_name, now) == [template |-> template_name, t |-> now]

\* WeaveProtocol.store_context: context_store afterwards
store_context(store, key, context, now) ==
  [k \in DOMAIN store \cup {key} |->
     IF k = key
       THEN [data |-> context, timestamp |-> now, agent_id |-> AgentId]
       ELSE store[k]]

\* WeaveProtocol.get_context: dict.get
get_context(store, key) == IF key \in DOMAIN store THEN store[key] ELSE None

\* MCPContextManager.create_context_from_template: whether it raised, the
\* two dicts afterwards and the key returned
create_context_from_template_checks_last(templates, store, template_name, data, now) ==
  LET known == template_name \in DOMAIN templates
      key == context_key(template_name, now)
      context_data ==
        [template |-> template_name, data |-> data,
         schema |-> IF known THEN templates[template_name].schema ELSE None,
         created_at |-> now]
  IN [raised |-> ~known,
      templates |-> IF known
                      THEN [templates EXCEPT
                              ![template_name].usage_count = @ + 1]
                      ELSE templates,
      store |-> store_context(store, key, context_data, now),
      key |-> IF known THEN key ELSE None]

create_context_from_template(templates, store, template_name, data, now) ==
  IF template_name \notin DOMAIN templates
    THEN [raised |-> TRUE, templates |-> templates, store |-> store,
          key |-> None]
    ELSE LET key == context_key(template_name, now)
             context_data ==
               [template |-> template_name, data |-> data,
                schema |-> templates[template_name].schema,
                created_at |-> now]
         IN [raised |-> FALSE,
             templates |-> [templates EXCEPT
                              ![template_name].usage_count = @ + 1],
             store |-> store_context(store, key, context_data, now),
             key |-> key]

\* the payload of a stored record: record["data"]["data"]
payload(record) == record.data.data

\* MCPContextManager.link_contexts: context_relationships afterwards, an
\* insertion-ordered dict parent -> list of edges
link_contexts_reversed(relationships, parent_key, child_key, relationship_type, now) ==
  LET edge == [child |-> parent_key, type |-> relationship_type,
               created_at |-> now]
  IN IF \E j \in 1..Len(relationships) : relationships[j].name = child_key
       THEN [j \in 1..Len(relationships) |->
               IF relationships[j].name = child_key
                 THEN [relationships[j] EXCEPT !.edges = Append(@, edge)]
                 ELSE relationships[j]]
       ELSE Append(relationships, [name |-> child_key, edges |-> <<edge>>])

link_contexts(relationships, parent_key, child_key, relationship_type, now) ==
  LET edge == [child |-> child_key, type |-> relationship_type,
               created_at |-> now]
  IN IF \E j \in 1..Len(relationships) : relationships[j].name = parent_key
       THEN [j \in 1..Len(relationships) |->
               IF relationships[j].name = parent_key
                 THEN [relationships[j] EXCEPT !.edges = Append(@, edge)]
                 ELSE relationships[j]]
       ELSE Append(relationships, [name |-> parent_key, edges |-> <<edge>>])

\* [rel["child"] for rel in self.context_relationships[key]]
Children(relationships, key) ==
  LET at == {j \in 1..Len(relationships) :
               relationships[j].name = key}
  IN IF at = {} THEN <<>>
     ELSE LET edges == relationships[CHOOSE j \in at : TRUE].edges
          IN [j \in 1..Len(edges) |-> edges[j].child]

\* the reverse lookup: parents with an edge to key, in dict order
RECURSIVE Parents(_, _)
Parents(relationships, key) ==
  IF relationships = <<>> THEN <<>>
  ELSE LET entry == Head(relationships)
       IN (IF \E j \in 1..Len(entry.edges) :
                 entry.edges[j].child = key
             THEN <<entry.name>> ELSE <<>>)
            \o Parents(Tail(relationships), key)

\* MCPContextManager.get_related_contexts
get_related_contexts_children_only(relationships, key) ==
  Children(relationships, key)

get_related_contexts(relationships, key) ==
  Children(relationships, key) \o Parents(relationships, key)

\* sum(len(rels) for rels in self.context_relationships.values())
RECURSIVE relationships_count(_)
relationships_count(relationships) ==
  IF relationships = <<>> THEN 0
  ELSE Len(Head(relationships).edges)
         + relationships_count(Tail(relationships))

\* ------------------------------------------------------------------- state
VARIABLES
  use_mock,            \* constructor argument shared by the instances
  orch,                \* which orchestrator runs the current query
  pc,                  \* position inside process_query
  query,               \* the query being processed
  trace,               \* stages entered by the current query, in order
  n_queries,           \* queries started so far
  task_analysis,       \* router output
  idx,                 \* loop position in execution_order
  context,             \* coordinate_specialists: carried context
  specialist_results,  \* insertion-ordered dict of results
  tools_to_use,        \* tools selected for the running specialist/agent
  tool_idx,            \* loop position in tools_to_use
  tool_results,        \* insertion-ordered dict of tool results
  invocations,         \* specialized_process calls: <<name, context>>
  final_response,      \* synthesizer output
  exc,                 \* exception in flight / caught
  ret,                 \* value process_query returned
  tools,               \* ToolRegistry.tools counters, per owner
  usage_stats,         \* MCPServer.usage_stats
  last_exec,           \* most recent registry invocation and its result
  n_exec,              \* registry invocations made by the current query
  session_stats,       \* ProductionMultiAgent.session_stats
  llm_calls,           \* completion calls made for the current query, by caller
  message_id_counter,  \* WeaveProtocol.message_id_counter
  message_history,     \* WeaveProtocol.message_history
  clock,               \* int(time.time()) as last read
  returned,            \* value the last protocol call handed back
  context_store,       \* WeaveProtocol.context_store
  context_templates,   \* MCPContextManager.context_templates
  context_relationships, \* MCPContextManager.context_relationships
  enhanced,            \* process_enhanced: position and locals
  function,            \* ToolRegistry.tools[name]["function"], WeaveAgent's
  handler,             \* MCPServer.tools[name].handler
  workers              \* concurrent call_tool invocations: position, locals

queryVars == <<orch, pc, query, trace, n_queries, task_analysis, idx, context,
               specialist_results, tools_to_use, tool_idx, tool_results,
               invocations, final_response, exc, ret, session_stats>>
regVars   == <<tools, usage_stats, last_exec, n_exec>>
protoVars == <<message_id_counter, message_history, clock, returned>>
ctxVars   == <<context_store, context_templates, context_relationships,
               enhanced>>
apiVars   == <<function, handler, workers>>
sideVars  == <<protoVars, ctxVars, apiVars>>
vars      == <<use_mock, queryVars, regVars, llm_calls, sideVars>>

\* process_enhanced is not running
NotRunning == [pc |-> "idle", task_context_key |-> None,
               conversation_context_key |-> None]

\* concurrent queries on the shared mcp_server
MaxWorkers == 2
Workers == 1..MaxWorkers
Idle == [pc |-> "idle", loaded |-> 0, outcome |-> "none"]

NoAnalysis == [execution_order |-> <<>>, route |-> "", tool_type |-> ""]
NoExec     == [registry |-> "", name |-> "", error |-> FALSE, known |-> FALSE]

Init ==
  /\ use_mock \in BOOLEAN
  /\ orch = "none"
  /\ pc = "idle"
  /\ query = [kw |-> {}, words |-> 0]
  /\ trace = <<>>
  /\ n_queries = 0
  /\ task_analysis = NoAnalysis
  /\ idx = 1
  /\ context = None
  /\ specialist_results = <<>>
  /\ tools_to_use = <<>>
  /\ tool_idx = 1
  /\ tool_results = <<>>
  /\ invocations = <<>>
  /\ final_response = None
  /\ exc = "none"
  /\ ret = [kind |-> "none"]
  /\ tools = [o \in Owners |-> [t \in ToolNames |-> register_tool]]
  /\ usage_stats = [t \in MCPToolNames |-> mcp_register_tool]
  /\ last_exec = NoExec
  /\ n_exec = 0
  /\ session_stats = [total_queries |-> 0, errors |-> 0]
  /\ llm_calls = <<>>
  /\ message_id_counter = 0
  /\ message_history = <<>>
  /\ clock = 0
  /\ returned = [op |-> "none"]
  /\ context_store = EmptyDict
  /\ context_templates =
       [n \in SetupTemplates |->
          [schema |-> "schema_a", created_at |-> 0, usage_count |-> 0]]
  /\ context_relationships = <<>>
  /\ enhanced = NotRunning
  /\ function = [t \in ToolNames |-> t]
  /\ handler = [t \in MCPToolNames |-> t]
  /\ workers = [w \in Workers |-> Idle]

\* Move to position p, recording the stage when it changes.
Goto(p) ==
  /\ pc' = p
  /\ trace' = IF Stage(p) = Stage(pc) THEN trace ELSE Append(trace, Stage(p))

\* An exception leaves the running step.  ProductionMultiAgent.process_query
\* catches it and returns the error envelope; the other orchestrators have
\* no handler, so it propagates to the caller.
Raise(kind) ==
  /\ exc' = kind
  /\ IF orch = "production"
       THEN /\ Goto("failed")
            /\ session_stats' = [session_stats EXCEPT !.errors = @ + 1]
            /\ ret' = [kind |-> "error", query |-> query, error |-> kind]
       ELSE /\ Goto("raised")
            /\ UNCHANGED <<session_stats, ret>>

\* Responses.  The mock templates depend only on the specialty.
MockResponse(name) == "mock_" \o name

\* execution_order values an LLM analysis may carry: empty, an unregistered
\* name ("editor"), chains, a chain with a gap, a repeated name.
LLMPlans ==
  {<<>>, <<"editor">>, <<"research", "writing">>, <<"editor", "writing">>,
   <<"writing", "writing">>, <<"research", "analysis", "writing">>}

\* tool lists an LLM may return to select_tools ("bogus" is not registered)
LLMToolPlans ==
  {<<>>, <<"calculator">>, <<"bogus", "time">>, <<"time", "time">>}

\* CoordinatorAgent.synthesize_results: the completion calls it makes for
\* the collected results
synthesize_calls_per_result(mock, results) ==
  IF mock THEN <<>> ELSE [j \in 1..Len(results) |-> "synthesizer"]

synthesize_calls(mock, results) ==
  IF mock THEN <<>> ELSE <<"synthesizer">>

\* synthesizer_node: the test that selects the direct rendering of the tool
\* results
direct_rendering_never(o, results) == FALSE

direct_rendering(o, results) ==
  Len(results) = 1 /\ results[1].name = executor_key(o)

\* ------------------------------------------------------ starting a query
\* The per-query part of Init.
Fresh ==
  /\ trace' = <<>>
  /\ task_analysis' = NoAnalysis
  /\ idx' = 1
  /\ context' = None
  /\ specialist_results' = <<>>
  /\ tools_to_use' = <<>>
  /\ tool_idx' = 1
  /\ tool_results' = <<>>
  /\ invocations' = <<>>
  /\ final_response' = None
  /\ exc' = "none"
  /\ ret' = [kind |-> "none"]
  /\ last_exec' = NoExec
  /\ n_exec' = 0
  /\ llm_calls' = <<>>

\* process_query / process is called: its first statements
process_query(o) ==
  /\ pc = "idle"
  /\ n_queries < MaxQueries
  /\ n_queries' = n_queries + 1
  /\ \E q \in Queries : query' = q
  /\ orch' = o
  /\ pc' = Entry(o)
  /\ trace' = <<Stage(Entry(o))>>
  /\ session_stats' = IF o = "production"
                        THEN [session_stats EXCEPT !.total_queries = @ + 1]
                        ELSE session_stats
  /\ UNCHANGED <<use_mock, sideVars, llm_calls, task_analysis, idx, context, specialist_results,
                 tools_to_use, tool_idx, tool_results, invocations,
                 final_response, exc, ret, regVars>>

\* The call is over (returned or raised) and its frame is gone; only the
\* instances' fields remain.
call_ends ==
  /\ pc \in {"done", "failed", "raised"}
  /\ pc' = "idle"
  /\ orch' = "none"
  /\ query' = [kw |-> {}, words |-> 0]
  /\ Fresh
  /\ UNCHANGED <<use_mock, sideVars, n_queries, session_stats, tools, usage_stats>>

\* ------------------------------------------------- MultiAgentWorkflow
\* CoordinatorAgent.analyze_task
analyze_task ==
  /\ orch = "workflow" /\ pc = "analyze_task"
  /\ llm_calls' = IF use_mock THEN llm_calls
                            ELSE Append(llm_calls, "analyze_task")
  /\ \/ /\ use_mock
        /\ task_analysis' =
             [NoAnalysis EXCEPT !.execution_order = analyze_task_mock(query)]
        /\ Goto("coordinate_specialists")
        /\ UNCHANGED <<exc, ret, session_stats>>
     \/ /\ ~use_mock          \* the completion parses as a JSON analysis
        /\ \E plan \in LLMPlans :
             task_analysis' = [NoAnalysis EXCEPT !.execution_order = plan]
        /\ Goto("coordinate_specialists")
        /\ UNCHANGED <<exc, ret, session_stats>>
     \/ /\ ~use_mock          \* json.loads fails: available_specialists[:1]
        /\ task_analysis' =
             [NoAnalysis EXCEPT !.execution_order = SubSeq(Specialties, 1, 1)]
        /\ Goto("coordinate_specialists")
        /\ UNCHANGED <<exc, ret, session_stats>>
     \/ /\ ~use_mock          \* client.chat.completions.create raises
        /\ Raise("CompletionTransportError")
        /\ UNCHANGED task_analysis
  /\ UNCHANGED <<use_mock, sideVars, orch, query, n_queries, idx, context,
                 specialist_results, tools_to_use, tool_idx, tool_results,
                 invocations, final_response, regVars>>

\* coordinate_specialists takes the single-specialist branch
FastPath == is_simple_query(query) /\ task_analysis.execution_order # <<>>

\* number of execution_order entries coordinate_specialists visits
VisitLimit ==
  IF FastPath THEN 1 ELSE Len(task_analysis.execution_order)

\* the context argument of the next specialized_process call
ContextArg_first_output ==
  IF FastPath \/ specialist_results = <<>> THEN None
  ELSE specialist_results[1].response

ContextArg == IF FastPath THEN None ELSE context

\* CoordinatorAgent.coordinate_specialists: one turn of the loop (or the
\* single-specialist branch), up to the call of specialized_process
coordinate_specialists ==
  /\ orch = "workflow" /\ pc = "coordinate_specialists"
  /\ LET order == task_analysis.execution_order IN
       IF idx > VisitLimit
         THEN /\ Goto("synthesize_results")
              /\ UNCHANGED <<idx, invocations, tools_to_use, tool_idx,
                             tool_results>>
       ELSE IF order[idx] \notin SpecialistNames
         THEN /\ idx' = idx + 1
              /\ UNCHANGED <<pc, trace, invocations, tools_to_use, tool_idx,
                             tool_results>>
       ELSE /\ invocations' =
                 Append(invocations,
                        [name |-> order[idx], context |-> ContextArg])
            /\ tools_to_use' = detect_tools(query)
            /\ tool_idx' = 1
            /\ tool_results' = <<>>
            /\ Goto("specialized_process")
            /\ UNCHANGED idx
  /\ UNCHANGED <<use_mock, sideVars, llm_calls, orch, query, n_queries, task_analysis, context,
                 specialist_results, final_response, exc, ret, session_stats,
                 regVars>>

\* SpecialistAgent._detect_and_execute_tools: one self.tools.execute call
detect_and_execute_tools ==
  /\ orch = "workflow" /\ pc = "specialized_process"
  /\ tool_idx <= Len(tools_to_use)
  /\ LET owner == task_analysis.execution_order[idx]
         name  == tools_to_use[tool_idx] IN
     \E outcome \in HandlerOutcomes :
       /\ tools' = [tools EXCEPT ![owner] = execute(@, name, outcome)]
       /\ tool_results' = Put(tool_results, execute_result(name, outcome))
       /\ last_exec' = [registry |-> owner, name |-> name,
                        error |-> execute_result(name, outcome).error,
                        known |-> TRUE]
       /\ n_exec' = n_exec + 1
  /\ tool_idx' = tool_idx + 1
  /\ UNCHANGED <<use_mock, sideVars, llm_calls, orch, pc, query, trace, n_queries, task_analysis,
                 idx, context, specialist_results, tools_to_use, invocations,
                 final_response, exc, ret, session_stats, usage_stats>>

\* SpecialistAgent.specialized_process after the tools ran, and the
\* statements of coordinate_specialists that take its result
specialized_process ==
  /\ orch = "workflow" /\ pc = "specialized_process"
  /\ tool_idx > Len(tools_to_use)
  /\ llm_calls' = IF use_mock THEN llm_calls
                  ELSE Append(llm_calls, task_analysis.execution_order[idx])
  /\ LET name == task_analysis.execution_order[idx]
         Returns(response) ==
           /\ specialist_results' =
                Put(specialist_results,
                    [name |-> name, response |-> response,
                     tool_results |-> tool_results])
           /\ context' = IF FastPath THEN context ELSE response
           /\ idx' = idx + 1
           /\ Goto("coordinate_specialists")
           /\ UNCHANGED <<exc, ret, session_stats>>
     IN \/ use_mock /\ Returns(MockResponse(name))
        \/ ~use_mock /\ Returns(LLMResponse(name))
        \/ /\ ~use_mock
           /\ Raise("CompletionTransportError")
           /\ UNCHANGED <<specialist_results, context, idx>>
  /\ UNCHANGED <<use_mock, sideVars, orch, query, n_queries, task_analysis,
                 tools_to_use, tool_idx, tool_results, invocations,
                 final_response, regVars>>

\* CoordinatorAgent.synthesize_results
synthesize_results ==
  /\ orch = "workflow" /\ pc = "synthesize_results"
  /\ llm_calls' = llm_calls \o synthesize_calls(use_mock, specialist_results)
  /\ \/ /\ use_mock
        /\ final_response' = "mock_synthesis"
        /\ Goto("return")
        /\ UNCHANGED <<exc, ret, session_stats>>
     \/ /\ ~use_mock
        /\ final_response' = LLMResponse("synthesis")
        /\ Goto("return")
        /\ UNCHANGED <<exc, ret, session_stats>>
     \/ /\ ~use_mock
        /\ Raise("CompletionTransportError")
        /\ UNCHANGED final_response
  /\ UNCHANGED <<use_mock, sideVars, orch, query, n_queries, task_analysis, idx,
                 context, specialist_results, tools_to_use, tool_idx,
                 tool_results, invocations, regVars>>

\* process_query / process: the result dict handed to the caller
return_result ==
  /\ pc = "return"
  /\ ret' = [kind |-> "result", query |-> query,
             task_analysis |-> task_analysis,
             specialist_results |-> specialist_results,
             final_response |-> final_response]
  /\ Goto("done")
  /\ UNCHANGED <<use_mock, sideVars, llm_calls, orch, query, n_queries, task_analysis, idx,
                 context, specialist_results, tools_to_use, tool_idx,
                 tool_results, invocations, final_response, exc,
                 session_stats, regVars>>

\* ------------------------------------ LangGraph / Production graphs
\* coordinator_node, then route_to_agents through the conditional edges
coordinator_node ==
  /\ orch \in {"langgraph", "production"} /\ pc = "coordinator"
  /\ LET route == IF orch = "langgraph" THEN langgraph_route(query)
                                        ELSE production_route(query)[1]
         tool_type == IF orch = "langgraph" THEN ""
                                            ELSE production_route(query)[2]
     IN /\ task_analysis' = [execution_order |-> agents_needed(route),
                             route |-> route, tool_type |-> tool_type]
        /\ Goto(conditional_edges(orch, route))
  /\ UNCHANGED <<use_mock, sideVars, llm_calls, orch, query, n_queries, idx, context,
                 specialist_results, tools_to_use, tool_idx, tool_results,
                 invocations, final_response, exc, ret, session_stats,
                 regVars>>

AgentNodes == {"research", "analysis", "writing"}

\* research_agent_node / analysis_agent_node / writing_agent_node
agent_node(name) ==
  /\ orch \in {"langgraph", "production"} /\ pc = name \o "_agent"
  /\ llm_calls' = IF use_mock THEN llm_calls ELSE Append(llm_calls, name)
  /\ LET Returns(response) ==
           /\ specialist_results' =
                Put(specialist_results,
                    [name |-> name, response |-> response,
                     tool_results |-> <<>>])
           /\ final_response' = response      \* messages[-1]
           /\ Goto("synthesizer")
           /\ UNCHANGED <<exc, ret, session_stats>>
     IN \/ use_mock /\ Returns(MockResponse(name))
        \/ ~use_mock /\ Returns(LLMResponse(name))
        \/ /\ ~use_mock                      \* chain.invoke raises
           /\ Raise("CompletionTransportError")
           /\ UNCHANGED <<specialist_results, final_response>>
  /\ UNCHANGED <<use_mock, sideVars, orch, query, n_queries, task_analysis, idx,
                 context, tools_to_use, tool_idx, tool_results, invocations,
                 regVars>>

\* LangGraphMultiAgent.tool_executor_node: self.tools[k].invoke(...)
tool_executor_node ==
  /\ orch = "langgraph" /\ pc = "tool_executor"
  /\ LET name == executor_tool(query) IN
       \/ /\ tool_results' = <<[name |-> name, error |-> FALSE]>>
          /\ tools_to_use' = <<name>>       \* state["tools_used"]
          /\ specialist_results' =
               Put(specialist_results,
                   [name |-> executor_key(orch), response |-> "tool_results",
                    tool_results |-> tool_results'])
          /\ final_response' = "tool_results"
          /\ Goto("synthesizer")
          /\ UNCHANGED <<exc, ret, session_stats>>
       \/ /\ name = "time"                  \* invoke() is called without input
          /\ Raise("TypeError")
          /\ UNCHANGED <<tool_results, tools_to_use, specialist_results,
                         final_response>>
  /\ UNCHANGED <<use_mock, sideVars, llm_calls, orch, query, n_queries, task_analysis, idx,
                 context, tool_idx, invocations, regVars>>

\* ProductionMultiAgent.mcp_executor_node: one call_mcp_tool
mcp_executor_node ==
  /\ orch = "production" /\ pc = "mcp_executor"
  /\ LET name == executor_tool(query) IN
     \E outcome \in HandlerOutcomes :
       /\ usage_stats' = call_tool(usage_stats, name, outcome)
       /\ last_exec' = [registry |-> "mcp_server", name |-> name,
                        error |-> call_tool_result(name, outcome).error,
                        known |-> TRUE]
       /\ n_exec' = n_exec + 1
       /\ IF call_tool_raises(outcome)
            THEN /\ Raise("CapabilityExecutionError")
                 /\ UNCHANGED <<tool_results, tools_to_use,
                                specialist_results, final_response>>
            ELSE /\ tool_results' = <<call_tool_result(name, outcome)>>
                 /\ tools_to_use' = <<name>>          \* state["tools_used"]
                 /\ specialist_results' =
                      Put(specialist_results,
                          [name |-> executor_key(orch),
                           response |-> "tool_results",
                           tool_results |-> tool_results'])
                 /\ final_response' = "tool_results"
                 /\ Goto("synthesizer")
                 /\ UNCHANGED <<exc, ret, session_stats>>
  /\ UNCHANGED <<use_mock, sideVars, llm_calls, orch, query, n_queries, task_analysis, idx,
                 context, tool_idx, invocations, tools>>

\* synthesizer_node
synthesizer_node ==
  /\ orch \in {"langgraph", "production"} /\ pc = "synthesizer"
  /\ \/ /\ direct_rendering(orch, specialist_results)
        /\ final_response' = "rendered_tool_results"
        /\ UNCHANGED llm_calls
        /\ Goto("return")
        /\ UNCHANGED <<exc, ret, session_stats>>
     \/ /\ ~direct_rendering(orch, specialist_results)
        /\ \/ /\ use_mock
              /\ final_response' = "mock_synthesis"
              /\ UNCHANGED llm_calls
           \/ /\ ~use_mock
              /\ final_response' = LLMResponse("synthesis")
              /\ llm_calls' = Append(llm_calls, "synthesizer")
        /\ Goto("return")
        /\ UNCHANGED <<exc, ret, session_stats>>
     \/ /\ ~direct_rendering(orch, specialist_results)
        /\ ~use_mock                         \* chain.invoke raises
        /\ llm_calls' = Append(llm_calls, "synthesizer")
        /\ Raise("CompletionTransportError")
        /\ UNCHANGED final_response
  /\ UNCHANGED <<use_mock, sideVars, orch, query, n_queries, task_analysis, idx,
                 context, specialist_results, tools_to_use, tool_idx,
                 tool_results, invocations, regVars>>

\* ------------------------------------------------------------ WeaveAgent
\* WeaveAgent.select_tools
agent_select_tools ==
  /\ orch = "agent" /\ pc = "select_tools"
  /\ \/ /\ select_tools(query) # <<>> \/ use_mock
        /\ tools_to_use' = select_tools(query)
        /\ UNCHANGED llm_calls
     \/ /\ select_tools(query) = <<>> /\ ~use_mock
        /\ \E plan \in LLMToolPlans : tools_to_use' = plan
        /\ llm_calls' = Append(llm_calls, "select_tools")
  /\ task_analysis' = [NoAnalysis EXCEPT !.execution_order = tools_to_use']
  /\ tool_idx' = 1
  /\ Goto("execute_tools")
  /\ UNCHANGED <<use_mock, sideVars, orch, query, n_queries, idx, context,
                 specialist_results, tool_results, invocations,
                 final_response, exc, ret, session_stats, regVars>>

\* WeaveAgent.execute_tools: one turn of the loop
agent_execute_tools ==
  /\ orch = "agent" /\ pc = "execute_tools"
  /\ IF tool_idx > Len(tools_to_use)
       THEN /\ Goto("generate_response")
            /\ UNCHANGED <<tool_idx, tool_results, regVars>>
       ELSE LET name == tools_to_use[tool_idx] IN
            /\ tool_idx' = tool_idx + 1
            /\ UNCHANGED <<pc, trace, usage_stats>>
            /\ IF name \in ToolNames
                 THEN \E outcome \in HandlerOutcomes :
                        /\ tools' = [tools EXCEPT
                                       !["agent"] = execute(@, name, outcome)]
                        /\ tool_results' =
                             Put(tool_results, execute_result(name, outcome))
                        /\ last_exec' =
                             [registry |-> "agent", name |-> name,
                              error |-> execute_result(name, outcome).error,
                              known |-> TRUE]
                        /\ n_exec' = n_exec + 1
                 ELSE /\ tool_results' =
                           Put(tool_results, [name |-> name, error |-> TRUE])
                      /\ last_exec' = [registry |-> "agent", name |-> name,
                                       error |-> TRUE, known |-> FALSE]
                      /\ n_exec' = n_exec + 1
                      /\ UNCHANGED tools
  /\ UNCHANGED <<use_mock, sideVars, llm_calls, orch, query, n_queries, task_analysis, idx,
                 context, specialist_results, tools_to_use, invocations,
                 final_response, exc, ret, session_stats>>

\* WeaveAgent.generate_response
agent_generate_response ==
  /\ orch = "agent" /\ pc = "generate_response"
  /\ llm_calls' = IF use_mock THEN llm_calls
                            ELSE Append(llm_calls, "generate_response")
  /\ \/ /\ use_mock
        /\ final_response' = "mock_response"
        /\ Goto("return")
        /\ UNCHANGED <<exc, ret, session_stats>>
     \/ /\ ~use_mock
        /\ final_response' = LLMResponse("synthesis")
        /\ Goto("return")
        /\ UNCHANGED <<exc, ret, session_stats>>
     \/ /\ ~use_mock
        /\ Raise("CompletionTransportError")
        /\ UNCHANGED final_response
  /\ UNCHANGED <<use_mock, sideVars, orch, query, n_queries, task_analysis, idx,
                 context, specialist_results, tools_to_use, tool_idx,
                 tool_results, invocations, regVars>>

Next ==
  \/ \E o \in Orchestrators : process_query(o)
  \/ analyze_task
  \/ coordinate_specialists
  \/ detect_and_execute_tools
  \/ specialized_process
  \/ synthesize_results
  \/ coordinator_node
  \/ \E name \in AgentNodes : agent_node(name)
  \/ tool_executor_node
  \/ mcp_executor_node
  \/ synthesizer_node
  \/ agent_select_tools
  \/ agent_execute_tools
  \/ agent_generate_response
  \/ return_result
  \/ call_ends

Spec == Init /\ [][Next]_vars

\* ------------------------------------------------ a failing monitoring sink
\* positions of ProductionMultiAgent.process_query that call wandb.log
LoggingPositions ==
  {"coordinator", "research_agent", "analysis_agent", "writing_agent",
   "mcp_executor", "synthesizer", "return"}

\* wandb.log raises in a node of the graph or at the end of process_query.
\* What the node did before the call has happened; the exception reaches the
\* handler of process_query, which counts it and calls wandb.log again.
wandb_log_raises ==
  /\ orch = "production" /\ pc \in LoggingPositions
  /\ IF pc = "mcp_executor"
       THEN \E outcome \in HandlerOutcomes :
              /\ usage_stats' =
                   call_tool(usage_stats, executor_tool(query), outcome)
              /\ last_exec' =
                   [registry |-> "mcp_server", name |-> executor_tool(query),
                    error |-> call_tool_result(executor_tool(query),
                                               outcome).error,
                    known |-> TRUE]
              /\ n_exec' = n_exec + 1
       ELSE UNCHANGED <<usage_stats, last_exec, n_exec>>
  /\ llm_calls' =
       IF use_mock THEN llm_calls
       ELSE IF pc \in {"research_agent", "analysis_agent", "writing_agent"}
         THEN Append(llm_calls, task_analysis.route)
       ELSE IF /\ pc = "synthesizer"
               /\ ~direct_rendering(orch, specialist_results)
         THEN Append(llm_calls, "synthesizer")
       ELSE llm_calls
  /\ exc' = "MonitoringError"
  /\ session_stats' = [session_stats EXCEPT !.errors = @ + 1]
  /\ \/ /\ Goto("failed")              \* the handler's wandb.log returns
        /\ ret' = [kind |-> "error", query |-> query,
                   error |-> "MonitoringError"]
     \/ /\ Goto("raised")              \* the handler's wandb.log raises too
        /\ UNCHANGED ret
  /\ UNCHANGED <<use_mock, sideVars, orch, query, n_queries, task_analysis,
                 idx, context, specialist_results, tools_to_use, tool_idx,
                 tool_results, invocations, final_response, tools>>

SinkNext == Next \/ wandb_log_raises

SinkSpec == Init /\ [][SinkNext]_vars

\* ---------------------------------------------------------- WeaveProtocol
MaxMessages == 3
MaxLimit == 4

pipelineVars == <<use_mock, queryVars, regVars, llm_calls>>

\* generate_message_id: f"{agent_id}-{counter}-{int(time.time())}" after the
\* counter was incremented; the agent_id is fixed per protocol object
generate_message_id_time_only(counter, now) == [n |-> 0, t |-> now]

generate_message_id(counter, now) == [n |-> counter + 1, t |-> now]

\* an id no generate_message_id call returned, as a caller may pass
ForeignId == [n |-> 0, t |-> 0]

\* MCPMessage(...) with __post_init__ filling in the timestamp
MCPMessage(id, type, method, now) ==
  [id |-> id, type |-> type, method |-> method, timestamp |-> now]

\* self.message_history.append(message)
history_prepend(history, message) == <<message>> \o history

history_append(history, message) == Append(history, message)

\* dataclasses.asdict: a dict with the fields of the message
asdict(msg) == [f \in DOMAIN msg |-> msg[f]]

\* Python's history[-limit:] for limit > 0
LastItems(history, limit) ==
  IF limit >= Len(history) THEN history
  ELSE SubSeq(history, Len(history) - limit + 1, Len(history))

\* WeaveProtocol.get_message_history
get_message_history_oldest(history, limit) ==
  LET recent == IF limit > 0
                  THEN SubSeq(history, 1,
                              IF limit >= Len(history) THEN Len(history)
                                                       ELSE limit)
                  ELSE history
  IN [j \in 1..Len(recent) |-> asdict(recent[j])]

get_message_history(history, limit) ==
  LET recent == IF limit > 0 THEN LastItems(history, limit) ELSE history
  IN [j \in 1..Len(recent) |-> asdict(recent[j])]

Limits == (0 - 1)..MaxLimit

\* ids a caller can answer: those of the messages it was handed, or its own
RequestIds ==
  {message_history[j].id : j \in 1..Len(message_history)} \cup {ForeignId}

\* time.time() moves on
time_passes ==
  /\ clock < MaxClock
  /\ clock' = clock + 1
  /\ UNCHANGED <<pipelineVars, ctxVars, apiVars, message_id_counter, message_history, returned>>

\* the body of create_request for a given method
CreateRequest(op, method) ==
  /\ Len(message_history) < MaxMessages
  /\ message_id_counter' = message_id_counter + 1
  /\ LET message == MCPMessage(generate_message_id(message_id_counter, clock),
                               "request", method, clock)
     IN /\ message_history' = history_append(message_history, message)
        /\ returned' = [op |-> op, message |-> message]
  /\ UNCHANGED <<pipelineVars, ctxVars, apiVars, clock>>

\* WeaveProtocol.create_request
create_request == CreateRequest("create_request", "ping")

\* WeaveProtocol.process_agent_request
process_agent_request == CreateRequest("process_agent_request", "agent.process")

\* WeaveProtocol.process_tool_request
process_tool_request == CreateRequest("process_tool_request", "tool.execute")

\* WeaveProtocol.create_response
create_response ==
  /\ Len(message_history) < MaxMessages
  /\ \E request_id \in RequestIds :
       LET message == MCPMessage(request_id, "response", None, clock)
       IN /\ message_history' = history_append(message_history, message)
          /\ returned' = [op |-> "create_response", message |-> message,
                          request_id |-> request_id]
  /\ UNCHANGED <<pipelineVars, ctxVars, apiVars, message_id_counter, clock>>

\* WeaveProtocol.create_error
create_error ==
  /\ Len(message_history) < MaxMessages
  /\ \E request_id \in RequestIds :
       LET message == MCPMessage(request_id, "error", None, clock)
       IN /\ message_history' = history_append(message_history, message)
          /\ returned' = [op |-> "create_error", message |-> message,
                          request_id |-> request_id]
  /\ UNCHANGED <<pipelineVars, ctxVars, apiVars, message_id_counter, clock>>

\* WeaveProtocol.get_message_history
get_history ==
  /\ \E limit \in Limits :
       returned' = [op |-> "get_message_history", limit |-> limit,
                    value |-> get_message_history(message_history, limit)]
  /\ UNCHANGED <<pipelineVars, ctxVars, apiVars, message_id_counter, message_history, clock>>

ProtoInit == Init /\ use_mock

ProtoNext ==
  \/ time_passes
  \/ create_request
  \/ process_agent_request
  \/ process_tool_request
  \/ create_response
  \/ create_error
  \/ get_history

ProtoSpec == ProtoInit /\ [][ProtoNext]_vars

\* ------------------------------------------------------ MCPContextManager
offContext == <<pipelineVars, apiVars>>

RelationshipTypes == {"contains"}

\* keys a caller holds: those create_context_from_template returned
HeldKeys == DOMAIN context_store

\* MCPContextManager.create_context_template
CreateContextTemplate ==
  /\ enhanced.pc = "idle"
  /\ \E template_name \in NewTemplateNames, schema \in Schemas :
       /\ context_templates' =
            create_context_template(context_templates, template_name, schema,
                                    clock)
       /\ returned' = [op |-> "create_context_template"]
  /\ UNCHANGED <<offContext, message_id_counter, message_history, clock,
                 context_store, context_relationships, enhanced>>

\* MCPContextManager.create_context_from_template
CreateContextFromTemplate ==
  /\ enhanced.pc = "idle"
  /\ \E template_name \in TemplateNames, data \in Payloads :
       /\ template_name \in DOMAIN context_templates
            => context_templates[template_name].usage_count < MaxUses
       /\ LET r == create_context_from_template(context_templates,
                     context_store, template_name, data, clock)
          IN /\ context_templates' = r.templates
             /\ context_store' = r.store
             /\ returned' = [op |-> "create_context_from_template",
                             template_name |-> template_name, data |-> data,
                             raised |-> r.raised, key |-> r.key]
  /\ UNCHANGED <<offContext, message_id_counter, message_history, clock,
                 context_relationships, enhanced>>

\* MCPContextManager.link_contexts
LinkContexts ==
  /\ enhanced.pc = "idle"
  /\ relationships_count(context_relationships) < MaxLinks
  /\ \E parent_key \in HeldKeys, child_key \in HeldKeys,
        relationship_type \in RelationshipTypes :
       /\ context_relationships' =
            link_contexts(context_relationships, parent_key, child_key,
                          relationship_type, clock)
       /\ returned' = [op |-> "link_contexts"]
  /\ UNCHANGED <<offContext, message_id_counter, message_history, clock,
                 context_store, context_templates, enhanced>>

\* ------------------------------------------------ EnhancedProductionAgent
\* the dicts process_enhanced builds for its two contexts, by identity
task_data == "task_data"
conversation_data == "conversation_data"

\* process_enhanced, step 1: self.mcp_protocol.process_agent_request
process_enhanced ==
  /\ enhanced.pc = "idle"
  /\ Len(message_history) < MaxMessages
  /\ relationships_count(context_relationships) < MaxLinks
  /\ \A n \in {"task", "conversation"} :
       context_templates[n].usage_count < MaxUses
  /\ message_id_counter' = message_id_counter + 1
  /\ LET message == MCPMessage(generate_message_id(message_id_counter, clock),
                               "request", "agent.process", clock)
     IN message_history' = history_append(message_history, message)
  /\ enhanced' = [enhanced EXCEPT !.pc = "analyze_and_store_task"]
  /\ UNCHANGED <<offContext, clock, returned, context_store,
                 context_templates, context_relationships>>

\* step 2: _analyze_and_store_task
enhanced_analyze_and_store_task ==
  /\ enhanced.pc = "analyze_and_store_task"
  /\ LET r == create_context_from_template(context_templates,
                  context_store, "task", task_data, clock)
       IN /\ context_templates' = r.templates
          /\ context_store' = r.store
          /\ enhanced' = [enhanced EXCEPT
                            !.pc = "store_conversation_context",
                            !.task_context_key = r.key]
  /\ UNCHANGED <<offContext, message_id_counter, message_history, clock,
                 returned, context_relationships>>

\* steps 3 to 5: the LangChain agent and the evaluators hand back dicts (both
\* catch their own exceptions), then _store_conversation_context
enhanced_store_conversation_context ==
  /\ enhanced.pc = "store_conversation_context"
  /\ LET r == create_context_from_template(context_templates,
                  context_store, "conversation", conversation_data, clock)
       IN /\ context_templates' = r.templates
          /\ context_store' = r.store
          /\ enhanced' = [enhanced EXCEPT
                            !.pc = "link_contexts",
                            !.conversation_context_key = r.key]
  /\ UNCHANGED <<offContext, message_id_counter, message_history, clock,
                 returned, context_relationships>>

\* steps 6 and 7: the dashboard records, then link_contexts
enhanced_link_contexts ==
  /\ enhanced.pc = "link_contexts"
  /\ context_relationships' =
       link_contexts(context_relationships, enhanced.task_context_key,
                     enhanced.conversation_context_key, "contains", clock)
  /\ enhanced' = [enhanced EXCEPT !.pc = "return"]
  /\ UNCHANGED <<offContext, message_id_counter, message_history, clock,
                 returned, context_store, context_templates>>

\* step 8: return enhanced_result
enhanced_return ==
  /\ enhanced.pc = "return"
  /\ returned' = [op |-> "process_enhanced",
                  task |-> enhanced.task_context_key,
                  conversation |-> enhanced.conversation_context_key]
  /\ enhanced' = NotRunning
  /\ UNCHANGED <<offContext, message_id_counter, message_history, clock,
                 context_store, context_templates, context_relationships>>

ContextInit == Init /\ use_mock

ContextNext ==
  \/ time_passes
  \/ CreateContextTemplate
  \/ CreateContextFromTemplate

ContextSpec == ContextInit /\ [][ContextNext]_vars

EnhancedNext ==
  \/ time_passes
  \/ CreateContextFromTemplate
  \/ LinkContexts
  \/ process_enhanced
  \/ enhanced_analyze_and_store_task
  \/ enhanced_store_conversation_context
  \/ enhanced_link_contexts
  \/ enhanced_return

EnhancedSpec == ContextInit /\ [][EnhancedNext]_vars

\* ------------------------------------------------- registries, called directly
MaxCalls == 2

offRegistry == <<use_mock, queryVars, llm_calls, ctxVars, workers,
                 message_id_counter, message_history, clock, last_exec,
                 n_exec>>

\* names a caller registers or invokes: a default tool and one that is not
\* registered by the constructors
CallerNames == {"calculator", "custom"}

\* the function a caller registers
CallerFunctions == {"custom_function"}

RECURSIVE SumOver(_, _)
SumOver(f, S) ==
  IF S = {} THEN 0
  ELSE LET x == CHOOSE y \in S : TRUE IN f[x] + SumOver(f, S \ {x})

\* invocations counted by the two registries
TotalCalls ==
    SumOver([n \in DOMAIN tools["agent"] |-> tools["agent"][n].usage_count],
            DOMAIN tools["agent"])
  + SumOver([n \in DOMAIN usage_stats |-> usage_stats[n].calls],
            DOMAIN usage_stats)

\* ToolRegistry.register_tool, on the WeaveAgent's registry
RegisterTool ==
  /\ \E name \in CallerNames, func \in CallerFunctions :
       /\ tools' = [tools EXCEPT
                      !["agent"] = SetItem(@, name, register_tool)]
       /\ function' = SetItem(function, name, func)
       /\ returned' = [op |-> "register_tool", registry |-> "agent",
                       name |-> name, raised |-> FALSE,
                       existed |-> name \in DOMAIN tools["agent"]]
  /\ UNCHANGED <<offRegistry, usage_stats, handler>>

\* MCPServer.register_tool, on the process-wide mcp_server
MCPRegisterTool ==
  /\ \E name \in CallerNames, func \in CallerFunctions :
       /\ usage_stats' = SetItem(usage_stats, name, mcp_register_tool)
       /\ handler' = SetItem(handler, name, func)
       /\ returned' = [op |-> "register_tool", registry |-> "mcp",
                       name |-> name, raised |-> FALSE,
                       existed |-> name \in DOMAIN usage_stats]
  /\ UNCHANGED <<offRegistry, tools, function>>

\* what the registered function does with the arguments: the default
\* calculators as their code says, any other function returns or raises
FunctionResults(func, default) ==
  IF func = "calculator"
    THEN {default[expression] : expression \in Expressions}
    ELSE {[outcome |-> o, error |-> FALSE] : o \in HandlerOutcomes}

\* ToolRegistry.execute, on the WeaveAgent's registry
Execute ==
  /\ TotalCalls < MaxCalls
  /\ \E tool_name \in CallerNames :
       LET known == tool_name \in DOMAIN tools["agent"]
           results == IF known
                        THEN FunctionResults(function[tool_name],
                               [e \in Expressions |-> _calculator(e)])
                        ELSE {[outcome |-> "none", error |-> TRUE]}
       IN \E result \in results :
            /\ tools' = [tools EXCEPT
                           !["agent"] = ToolRegistry_execute(@, tool_name,
                                                            result.outcome)]
            /\ returned' =
                 [op |-> "execute", registry |-> "agent", name |-> tool_name,
                  known |-> known, raised |-> FALSE,
                  error |-> IF known /\ result.outcome = "return"
                              THEN result.error
                              ELSE TRUE]
  /\ UNCHANGED <<offRegistry, usage_stats, function, handler>>

\* MCPServer.call_tool, on the process-wide mcp_server
CallTool ==
  /\ TotalCalls < MaxCalls
  /\ \E tool_name \in CallerNames :
       LET known == tool_name \in DOMAIN usage_stats
           results == IF known
                        THEN FunctionResults(handler[tool_name],
                               [e \in Expressions |->
                                  _calculator_handler(e)])
                        ELSE {[outcome |-> "none", error |-> TRUE]}
       IN \E result \in results :
            /\ usage_stats' = MCPServer_call_tool(usage_stats, tool_name,
                                                  result.outcome)
            /\ returned' =
                 [op |-> "call_tool", registry |-> "mcp", name |-> tool_name,
                  known |-> known,
                  raised |-> known /\ call_tool_raises(result.outcome),
                  error |-> IF known /\ result.outcome = "return"
                              THEN result.error
                              ELSE TRUE]
  /\ UNCHANGED <<offRegistry, tools, function, handler>>

RegistryNext ==
  \/ RegisterTool
  \/ MCPRegisterTool
  \/ Execute
  \/ CallTool

RegistrySpec == ContextInit /\ [][RegistryNext]_vars

\* ------------------------------------- concurrent queries, one mcp_server
\* Every ProductionMultiAgent calls the module-level mcp_server; queries
\* running on different threads reach MCPServer.call_tool with no lock held.
\* `stats[k] += 1` is a read of stats[k] followed by a write, and another
\* thread may run between the two.
offShared == <<use_mock, queryVars, llm_calls, protoVars, ctxVars, function,
               handler, tools, last_exec, n_exec>>

\* the capability the concurrent queries invoke
SharedTool == "calculator"

\* the counter call_tool raises after the handler returned or raised
OutcomeCounter(outcome) == IF outcome = "raise" THEN "errors" ELSE "success"

\* stats["calls"] += 1, the read
call_tool_load_calls(w) ==
  /\ workers[w].pc = "idle"
  /\ workers' = [workers EXCEPT
                   ![w] = [pc |-> "store_calls",
                           loaded |-> usage_stats[SharedTool].calls,
                           outcome |-> "none"]]
  /\ UNCHANGED <<offShared, usage_stats>>

\* stats["calls"] += 1, the write
call_tool_store_calls(w) ==
  /\ workers[w].pc = "store_calls"
  /\ usage_stats' = [usage_stats EXCEPT
                       ![SharedTool].calls = workers[w].loaded + 1]
  /\ workers' = [workers EXCEPT ![w].pc = "execute_tool", ![w].loaded = 0]
  /\ UNCHANGED offShared

\* await self._execute_tool(tool, parameters)
call_tool_execute_tool(w) ==
  /\ workers[w].pc = "execute_tool"
  /\ \E outcome \in HandlerOutcomes :
       workers' = [workers EXCEPT ![w].pc = "load_outcome",
                                  ![w].outcome = outcome]
  /\ UNCHANGED <<offShared, usage_stats>>

\* stats["success"] += 1 or stats["errors"] += 1, the read
call_tool_load_outcome(w) ==
  /\ workers[w].pc = "load_outcome"
  /\ workers' = [workers EXCEPT
                   ![w].pc = "store_outcome",
                   ![w].loaded =
                      usage_stats[SharedTool][OutcomeCounter(workers[w].outcome)]]
  /\ UNCHANGED <<offShared, usage_stats>>

\* stats["success"] += 1 or stats["errors"] += 1, the write; call_tool
\* returns
call_tool_store_outcome(w) ==
  /\ workers[w].pc = "store_outcome"
  /\ usage_stats' =
       [usage_stats EXCEPT
          ![SharedTool][OutcomeCounter(workers[w].outcome)] =
             workers[w].loaded + 1]
  /\ workers' = [workers EXCEPT ![w].pc = "done", ![w].loaded = 0]
  /\ UNCHANGED offShared

SharedNext ==
  \E w \in Workers :
    \/ call_tool_load_calls(w)
    \/ call_tool_store_calls(w)
    \/ call_tool_execute_tool(w)
    \/ call_tool_load_outcome(w)
    \/ call_tool_store_outcome(w)

SharedSpec == ContextInit /\ [][SharedNext]_vars

\* ================================================================ claims
StageOrder == <<"ROUTING", "EXECUTING", "SYNTHESIZING", "DONE">>

IsPrefix(s, t) ==
  /\ Len(s) <= Len(t)
  /\ \A j \in 1..Len(s) : s[j] = t[j]

MultiAgentOrchestrators == {"workflow", "langgraph", "production"}

\* C1: a query handled by MultiAgentWorkflow, LangGraphMultiAgent or
\* ProductionMultiAgent enters its stages in the order ROUTING, EXECUTING,
\* SYNTHESIZING, DONE: no stage is skipped, none is entered out of order, and
\* the only other way a query ends is by an exception cutting the sequence.
C1_StagesInOrder ==
  orch \in MultiAgentOrchestrators =>
    \/ IsPrefix(trace, StageOrder)
    \/ /\ Len(trace) >= 2
       /\ trace[Len(trace)] \in {"FAILED", "RAISED"}
       /\ IsPrefix(SubSeq(trace, 1, Len(trace) - 1), StageOrder)

\* a LangGraph query that matched no routing rule went through every stage
C1_Witness ==
  /\ orch = "langgraph" /\ pc = "done"
  /\ ~Matches(query, {"research", "find", "information"})
  /\ task_analysis.route = "research"
  /\ trace = StageOrder

\* C2: an exception raised while a query is EXECUTING or SYNTHESIZING ends
\* the query in FAILED with an error envelope (query and error text, no
\* final response, no per-capability results); it never reaches the caller.
C2_ExceptionsEndInFailedEnvelope ==
  (/\ orch \in MultiAgentOrchestrators
   /\ exc # "none"
   /\ Len(trace) >= 2
   /\ trace[Len(trace) - 1] \in {"EXECUTING", "SYNTHESIZING"})
  => /\ pc = "failed"
     /\ ret.kind = "error"
     /\ DOMAIN ret = {"kind", "query", "error"}

\* every entry of both registries has usage = success + error
CountersAddUp ==
  /\ \A o \in Owners : \A t \in ToolNames :
       tools[o][t].usage_count
         = tools[o][t].success_count + tools[o][t].error_count
  /\ \A t \in MCPToolNames :
       usage_stats[t].calls = usage_stats[t].success + usage_stats[t].errors

\* this step is one invocation of a registered capability
Invokes == n_exec' = n_exec + 1 /\ last_exec'.known

\* the step moved exactly the counters of the capability it invoked: usage
\* by one, and by one success or error as the handler returned or raised
CountsOneInvocation ==
  LET r == last_exec'.registry
      n == last_exec'.name
      failed == last_exec'.error
  IN IF r = "mcp_server"
       THEN /\ usage_stats'[n].calls = usage_stats[n].calls + 1
            /\ usage_stats'[n].success
                 = usage_stats[n].success + (IF failed THEN 0 ELSE 1)
            /\ usage_stats'[n].errors
                 = usage_stats[n].errors + (IF failed THEN 1 ELSE 0)
            /\ \A t \in MCPToolNames \ {n} : usage_stats'[t] = usage_stats[t]
            /\ tools' = tools
       ELSE /\ tools'[r][n].usage_count = tools[r][n].usage_count + 1
            /\ tools'[r][n].success_count
                 = tools[r][n].success_count + (IF failed THEN 0 ELSE 1)
            /\ tools'[r][n].error_count
                 = tools[r][n].error_count + (IF failed THEN 1 ELSE 0)
            /\ \A o \in Owners : \A t \in ToolNames :
                 <<o, t>> # <<r, n>> => tools'[o][t] = tools[o][t]
            /\ usage_stats' = usage_stats

\* C3: in both registries every capability keeps usage_count = success_count
\* + error_count; an invocation of a registered capability raises its usage
\* count by exactly one and exactly one of success (handler returned) or
\* error (handler raised) by one, and nothing else moves a counter.
C3_RegistryCounters ==
  /\ []CountersAddUp
  /\ [][/\ Invokes => CountsOneInvocation
        /\ <<tools, usage_stats>>' # <<tools, usage_stats>> => Invokes]_vars

\* one capability of one registry has been invoked twice, once returning
\* and once raising
C3_Witness ==
  \E o \in Owners : \E t \in ToolNames :
    /\ tools[o][t].usage_count = 2
    /\ tools[o][t].success_count = 1
    /\ tools[o][t].error_count = 1

\* some capability invoked for the current query handed back an error
ErrorResultInQuery ==
  \/ \E j \in 1..Len(tool_results) : tool_results[j].error
  \/ \E k \in 1..Len(specialist_results) :
       \E j \in 1..Len(specialist_results[k].tool_results) :
         specialist_results[k].tool_results[j].error

\* C4: a handler that raises is captured by the registry: the step hands
\* back a result with the error set, counts the use without counting a
\* success, and raises nothing; a query in which that happened is never ended
\* by the capability's exception, and when it is done it has returned a
\* final response.
C4_HandlerFailureCaptured ==
  /\ [][(Invokes /\ last_exec'.error) =>
          /\ CountsOneInvocation
          /\ exc' = "none"
          /\ Stage(pc') \notin {"FAILED", "RAISED"}
          /\ \E j \in 1..Len(tool_results') :
               /\ tool_results'[j].name = last_exec'.name
               /\ tool_results'[j].error]_vars
  /\ [](exc # "CapabilityExecutionError")
  /\ []((ErrorResultInQuery /\ pc = "done") =>
          /\ ret.kind = "result"
          /\ ret.final_response # None
          /\ trace = StageOrder)

\* ProductionMultiAgent finished a query whose one capability raised
C4_Witness ==
  /\ orch = "production" /\ pc = "done"
  /\ last_exec.known /\ last_exec.error
  /\ usage_stats[last_exec.name].errors = 1
  /\ usage_stats[last_exec.name].success = 0
  /\ ret.kind = "result"

\* response recorded for specialist `name`
ResponseOf(name) ==
  LET k == CHOOSE k \in 1..Len(specialist_results) :
             specialist_results[k].name = name
  IN specialist_results[k].response

\* C5: on the sequential path of MultiAgentWorkflow each specialist is
\* called with the output of the specialist that ran just before it, and the
\* first one with no context.
C5_CarriedContext ==
  (orch = "workflow" /\ ~FastPath) =>
    \A j \in 1..Len(invocations) :
      invocations[j].context =
        IF j = 1 THEN None ELSE ResponseOf(invocations[j - 1].name)

\* a chain of three specialists has been started on the sequential path
C5_Witness ==
  /\ orch = "workflow" /\ ~FastPath
  /\ Len(invocations) = 3
  /\ invocations[3].context # invocations[2].context

\* the query has left EXECUTING normally
Executed == Stage(pc) \in {"SYNTHESIZING", "DONE"}

\* the process_query call is over
Ended == pc \in {"done", "failed", "raised"}

HasResult(name) ==
  \E k \in 1..Len(specialist_results) : specialist_results[k].name = name

\* C6: on the sequential path a specialist that fails does not stop the
\* chain: once the call is over every registered specialist of the execution
\* order has been invoked and has a result (its error, if it failed), and
\* the synthesizer got to run.
C6_FailingSpecialistDoesNotBlock ==
  (/\ orch = "workflow" /\ ~FastPath /\ Ended
   /\ \E j \in 1..Len(trace) : trace[j] = "EXECUTING")
  => /\ \A j \in 1..Len(task_analysis.execution_order) :
          task_analysis.execution_order[j] \in SpecialistNames =>
            /\ HasResult(task_analysis.execution_order[j])
            /\ \E k \in 1..Len(invocations) :
                 invocations[k].name = task_analysis.execution_order[j]
     /\ \E j \in 1..Len(trace) : trace[j] = "SYNTHESIZING"

\* C7: when execution has completed the executor has returned exactly one
\* result per capability of the list it was given, in list order.
C7_OneResultPerListedCapability ==
  /\ (orch = "workflow" /\ Executed) =>
       /\ Keys(specialist_results) = task_analysis.execution_order
       /\ Len(invocations) = Len(task_analysis.execution_order)
  /\ (orch = "agent" /\ Executed) =>
       /\ Keys(tool_results) = tools_to_use
       /\ n_exec = Len(tools_to_use)

\* C8: the executor takes the single-invocation branch exactly when the
\* query's complexity is low and one capability is required; a list of two or
\* more capabilities is never cut down to one invocation.
C8_FastPathIffLowAndSingle ==
  (orch = "workflow" /\ Executed) =>
    /\ FastPath <=> (/\ Complexity(query) = "low"
                     /\ Len(task_analysis.execution_order) = 1)
    /\ Cardinality({j \in 1..Len(task_analysis.execution_order) :
                      task_analysis.execution_order[j] \in SpecialistNames})
         >= 2
       => Len(invocations) >= 2

\* C9: when a query matches two or more rules of a router's table, the
\* router's required capability list is the capabilities of all the matched
\* rules, in table order, each once.
C9_AllMatchedRulesRouted ==
  /\ (/\ orch = "production" /\ pc # "coordinator"
      /\ Len(Matched(ProductionRules, query)) >= 2)
     => <<task_analysis.tool_type>> = Matched(ProductionRules, query)
  /\ (/\ orch = "agent" /\ pc # "select_tools"
      /\ Len(Matched(ToolRules, query)) >= 2)
     => tools_to_use = Matched(ToolRules, query)
  /\ (pc # "idle" /\ Len(Matched(EnhancedRules, query)) >= 2)
     => analyze_and_store_task(query).required_tools
          = Matched(EnhancedRules, query)

\* the query matches the arithmetic rule and no other rule of any router
OnlyArithmetic(q) == q.kw # {} /\ q.kw \subseteq {"calculate", "+", "-", "*", "/"}

\* the router's list: tool_type in ProductionMultiAgent, execution_order in
\* MultiAgentWorkflow
RequiredCapabilities ==
  IF orch = "production" THEN <<task_analysis.tool_type>>
  ELSE task_analysis.execution_order

Routed == \E j \in 1..Len(trace) : trace[j] = "EXECUTING"

\* the router of the running pipeline raised
RoutingRaised == trace = <<"ROUTING", "RAISED">> \/ trace = <<"ROUTING", "FAILED">>

\* C11: routing never fails and never yields an empty plan: the router
\* returns without raising, its list is not empty, and for a query that
\* matches no rule the list is exactly one default capability.
C11_RoutingNeverFailsNorEmpty ==
  /\ orch = "workflow" =>
       /\ ~RoutingRaised
       /\ Routed => /\ task_analysis.execution_order # <<>>
                    /\ Matched(WorkflowRules, query) = <<>>
                         => Len(task_analysis.execution_order) = 1
  /\ (pc # "idle" /\ Matched(EnhancedRules, query) = <<>>)
       => Len(analyze_and_store_task(query).required_tools) = 1

\* C12: every name the router lists is registered when it routes: a
\* specialist added to the coordinator, a tool of the registry.
C12_RouterNamesRegisteredOnly ==
  /\ (orch = "workflow" /\ Routed) =>
       \A j \in 1..Len(task_analysis.execution_order) :
         task_analysis.execution_order[j] \in SpecialistNames
  /\ (orch = "agent" /\ Routed) =>
       \A j \in 1..Len(tools_to_use) : tools_to_use[j] \in ToolNames

\* the pipelines with a synthesizer of their own named by the claims below
Synthesizing == {"workflow", "production"}

\* the synthesizer has returned
Synthesized == pc \in {"return", "done"}

\* the executor produced exactly one result and it holds a tool invocation
SingleToolResult ==
  /\ Len(specialist_results) = 1
  /\ specialist_results[1].tool_results # <<>>

\* C13: when the executor produced exactly one result and it came from a
\* tool invocation, the final response is the direct rendering of that
\* result and the completion collaborator was not invoked at all for the
\* query.
C13_SingleToolResultRenderedWithoutLLM ==
  (orch \in Synthesizing /\ Synthesized /\ SingleToolResult) =>
    /\ llm_calls = <<>>
    /\ final_response = "rendered_tool_results"

\* number of completion calls the synthesizer made for the current query
SynthesizerCalls ==
  Cardinality({j \in 1..Len(llm_calls) : llm_calls[j] = "synthesizer"})

CarriesError(k) ==
  \E j \in 1..Len(specialist_results[k].tool_results) :
    specialist_results[k].tool_results[j].error

SomeResultCarriesError ==
  \E k \in 1..Len(specialist_results) : CarriesError(k)

EveryResultCarriesError ==
  /\ specialist_results # <<>>
  /\ \A k \in 1..Len(specialist_results) : CarriesError(k)

\* C15: results that carry errors do not make the synthesizer raise: its
\* step on such results ends with a final response, unless the completion
\* call itself fails (C16); the direct rendering of a failed tool result
\* always returns; and a query that is done has returned a final response.
C15_SynthesizerSurvivesErrorResults ==
  /\ [][(/\ orch \in Synthesizing /\ Stage(pc) = "SYNTHESIZING"
         /\ SomeResultCarriesError /\ pc' # pc)
        => \/ exc' = "CompletionTransportError"
           \/ /\ pc' = "return" /\ exc' = "none"
              /\ final_response' # None]_vars
  /\ [][(/\ orch = "production" /\ pc = "synthesizer"
         /\ EveryResultCarriesError /\ pc' # pc)
        => /\ pc' = "return" /\ exc' = "none"
           /\ final_response' = "rendered_tool_results"
           /\ llm_calls' = llm_calls]_vars
  /\ []((orch \in Synthesizing /\ SomeResultCarriesError /\ pc = "done")
        => /\ ret.kind = "result"
           /\ ret.final_response # None)

\* a query all of whose results carry an error is done
C15_Witness ==
  /\ orch \in Synthesizing /\ pc = "done"
  /\ EveryResultCarriesError
  /\ ret.kind = "result"

\* C16: a completion call that raises inside a generative specialist or
\* inside the synthesizer is recovered where it is made: it never ends the
\* query.
C16_LLMFailureRecoveredAtCallSite ==
  orch \in Synthesizing =>
    ~(/\ exc = "CompletionTransportError"
      /\ Len(trace) >= 2
      /\ trace[Len(trace) - 1] \in {"EXECUTING", "SYNTHESIZING"})

\* C17: a monitoring call that raises never changes the outcome of a query:
\* no query of ProductionMultiAgent ends because of the sink, neither in the
\* error envelope nor by an exception leaving process_query.
C17_SinkFailureIsHarmless ==
  (orch = "production" /\ Ended) =>
    /\ exc # "MonitoringError"
    /\ pc # "raised"

Requests ==
  {j \in 1..Len(message_history) : message_history[j].type = "request"}

Creates ==
  \/ create_request \/ process_agent_request \/ process_tool_request
  \/ create_response \/ create_error

\* C19: the history is append-only: every call that creates a message
\* appends exactly that message at the end, and no step removes, reorders or
\* changes a message of the history.
C19_HistoryAppendOnly ==
  /\ [][Creates =>
          message_history' = Append(message_history, returned'.message)]_vars
  /\ [][/\ IsPrefix(message_history, message_history')
        /\ Len(message_history') <= Len(message_history) + 1
        /\ message_history' # message_history => Creates]_vars

\* a response was appended behind two requests
C19_Witness ==
  /\ Len(message_history) = 3
  /\ message_history[1].type = "request"
  /\ message_history[2].type = "request"
  /\ message_history[3].type = "response"
  /\ returned.op = "create_response"

Min(a, b) == IF a <= b THEN a ELSE b

\* the n most recent messages, oldest first
MostRecent(history, n) ==
  [j \in 1..n |-> history[Len(history) - n + j]]

\* a step of get_message_history that handed back a new value
GetsHistory ==
  returned'.op = "get_message_history" /\ returned' # returned

\* C20 as stated: for every limit N >= 0 get_message_history(N) hands back
\* the min(N, L) most recent messages, oldest first, and leaves the history
\* as it was.
C20_HistoryLimitAsStated ==
  [][(GetsHistory /\ returned'.limit >= 0) =>
       /\ returned'.value =
            MostRecent(message_history,
                       Min(returned'.limit, Len(message_history)))
       /\ message_history' = message_history]_vars

\* C20: for every limit N >= 1 get_message_history(N) hands back the
\* min(N, L) most recent messages, oldest first; for N <= 0 it hands back the
\* whole history; in both cases the history is left as it was.
C20_HistoryLimit ==
  [][GetsHistory =>
       /\ returned'.value =
            IF returned'.limit >= 1
              THEN MostRecent(message_history,
                              Min(returned'.limit, Len(message_history)))
              ELSE message_history
       /\ message_history' = message_history]_vars

\* the two most recent of three messages were handed back
C20_Witness ==
  /\ returned.op = "get_message_history"
  /\ returned.limit = 2
  /\ Len(message_history) = 3
  /\ returned.value = SubSeq(message_history, 2, 3)

\* ------------------------------------------------------------------- C21
\* a step of the context manager's interface, outside process_enhanced
InterfaceStep == enhanced.pc = "idle" /\ enhanced'.pc = "idle"

\* the step is a create_context_from_template call
CreatesContext ==
  /\ InterfaceStep
  /\ returned'.op = "create_context_from_template"

\* C21: create_context_from_template with a template name that is not
\* defined raises, and the call leaves the context store, the templates with
\* their usage counts and the relationship graph as they were.
C21_UnknownTemplateFailsWithoutEffect ==
  [][(CreatesContext
        /\ returned'.template_name \notin DOMAIN context_templates)
       => /\ returned'.raised
          /\ UNCHANGED <<context_store, context_templates,
                         context_relationships>>]_vars

\* a failed create in a state where store, usage counts and graph are not
\* empty
C21_Witness ==
  /\ returned.op = "create_context_from_template"
  /\ returned.raised
  /\ returned.template_name \notin DOMAIN context_templates
  /\ context_store # EmptyDict
  /\ context_relationships # <<>>
  /\ \E n \in DOMAIN context_templates :
       context_templates[n].usage_count > 0

\* ------------------------------------------------------------------- C22
\* get_context(key) hands back a record, not None
Resolves(store, key) == key \in DOMAIN store

\* C22: the key a create_context_from_template call returns resolves through
\* get_context to a record whose payload is the payload passed in, and every
\* later step leaves each stored record resolving to the payload it had.
C22_RoundTripSurvivesLaterCalls ==
  [][/\ (CreatesContext /\ ~returned'.raised)
          => /\ Resolves(context_store', returned'.key)
             /\ payload(get_context(context_store', returned'.key))
                  = returned'.data
     /\ \A key \in DOMAIN context_store :
          /\ Resolves(context_store', key)
          /\ payload(get_context(context_store', key))
               = payload(context_store[key])]_vars

\* ------------------------------------------------------------------- C23
\* the step is a create_context_from_template call that returned a key
CreatedContext ==
  /\ CreatesContext
  /\ ~returned'.raised
  /\ context_templates' # context_templates

\* C23: a create_context_from_template call returns a key no earlier call
\* returned, so the store grows by one record with every successful create.
C23_KeysNeverRepeat ==
  [][CreatedContext
       => /\ returned'.key \notin DOMAIN context_store
          /\ Cardinality(DOMAIN context_store')
               = Cardinality(DOMAIN context_store) + 1]_vars

\* ------------------------------------------------------------------- C24
\* the keys get_related_contexts(key) hands back
Related(relationships, key) ==
  SeqToSet(get_related_contexts(relationships, key))

\* the step is a link_contexts(a, b, ...) call
Links(a, b) ==
  \E relationship_type \in RelationshipTypes :
    context_relationships' =
      link_contexts(context_relationships, a, b, relationship_type, clock)

\* C24: after link_contexts(a, b, rel), get_related_contexts(a) contains b
\* and get_related_contexts(b) contains a, and no later step takes a key out
\* of what get_related_contexts hands back.
C24_LinkVisibleFromBothEnds ==
  [][context_relationships' # context_relationships
       => \A a \in DOMAIN context_store', b \in DOMAIN context_store' :
            /\ Links(a, b)
                 => /\ b \in Related(context_relationships', a)
                    /\ a \in Related(context_relationships', b)
            /\ b \in Related(context_relationships, a)
                 => b \in Related(context_relationships', a)]_vars

\* two links were made, the second after a -> b, and a differs from b
C24_Witness ==
  /\ relationships_count(context_relationships) = MaxLinks
  /\ \E a \in DOMAIN context_store, b \in DOMAIN context_store :
       /\ a # b
       /\ Head(context_relationships).name = a
       /\ Head(context_relationships).edges[1].child = b
       /\ b \in Related(context_relationships, a)
       /\ a \in Related(context_relationships, b)

\* ------------------------------------------------------------------- C25
\* C25: no edge of the relationship graph has its parent key as its child
\* key.
C25_NoSelfLoops ==
  \A j \in 1..Len(context_relationships) :
    \A i \in 1..Len(context_relationships[j].edges) :
      context_relationships[j].edges[i].child # context_relationships[j].name

\* ------------------------------------------------------------------- C30
\* the statements of process_enhanced that write, in program order
EnhancedOrder == <<"idle", "analyze_and_store_task",
                   "store_conversation_context", "link_contexts", "return">>

\* the step leaves position p of process_enhanced
Leaves(p) == enhanced.pc = p /\ enhanced'.pc # p

\* the key was stored by this step, under the given template
Stores(key, template_name) ==
  /\ DOMAIN context_store' = DOMAIN context_store \cup {key}
  /\ context_store'[key].data.template = template_name
  /\ \A k \in DOMAIN context_store \ {key} :
       context_store'[k] = context_store[k]

\* C30: a process_enhanced call goes through its steps once each, in order:
\* it appends one request message, stores a task context, stores a
\* conversation context and adds one edge from its task key to its
\* conversation key, both of which resolve when the edge is added; from then
\* on get_related_contexts(task key) contains the conversation key.  No step
\* of the call writes anything else.
C30_EnhancedQueryRecordsItsContexts ==
  [][/\ \A j \in 1..Len(EnhancedOrder) :
          Leaves(EnhancedOrder[j])
            => enhanced'.pc = EnhancedOrder[(j % Len(EnhancedOrder)) + 1]
     /\ Leaves("idle")
          => /\ Len(message_history') = Len(message_history) + 1
             /\ SubSeq(message_history', 1, Len(message_history))
                  = message_history
             /\ message_history'[Len(message_history')].type = "request"
             /\ UNCHANGED <<context_store, context_relationships>>
     /\ Leaves("analyze_and_store_task")
          => /\ Stores(enhanced'.task_context_key, "task")
             /\ UNCHANGED <<message_history, context_relationships>>
     /\ Leaves("store_conversation_context")
          => /\ Stores(enhanced'.conversation_context_key, "conversation")
             /\ enhanced'.task_context_key = enhanced.task_context_key
             /\ UNCHANGED <<message_history, context_relationships>>
     /\ Leaves("link_contexts")
          => LET task == enhanced.task_context_key
                 conversation == enhanced.conversation_context_key
             IN /\ Resolves(context_store, task)
                /\ Resolves(context_store, conversation)
                /\ relationships_count(context_relationships')
                     = relationships_count(context_relationships) + 1
                /\ Children(context_relationships', task)
                     = Append(Children(context_relationships, task),
                              conversation)
                /\ conversation \in Related(context_relationships', task)
                /\ enhanced'.task_context_key = task
                /\ enhanced'.conversation_context_key = conversation
                /\ UNCHANGED <<message_history, context_store>>
     /\ Leaves("return")
          => /\ returned'.op = "process_enhanced"
             /\ returned'.task = enhanced.task_context_key
             /\ returned'.conversation = enhanced.conversation_context_key
             /\ returned'.conversation
                  \in Related(context_relationships', returned'.task)
             /\ UNCHANGED <<message_history, context_store,
                            context_relationships>>]_vars

\* two process_enhanced calls have completed
C30_Witness ==
  /\ enhanced.pc = "idle"
  /\ returned.op = "process_enhanced"
  /\ Len(message_history) = 2
  /\ returned.conversation \in Related(context_relationships, returned.task)

\* ------------------------------------------------------------------- C26
\* the counters and the function registered under a name, in either registry
Entry_(registry, name, t, u, f, h) ==
  IF registry = "agent"
    THEN [counters |-> t["agent"][name], function |-> f[name]]
    ELSE [counters |-> u[name], function |-> h[name]]

\* C26: register_tool with a name that is already registered raises and
\* leaves the registered function and its counters as they were.
C26_DuplicateRegistrationRejected ==
  [][(returned'.op = "register_tool" /\ returned'.existed)
       => /\ returned'.raised
          /\ Entry_(returned'.registry, returned'.name,
                    tools', usage_stats', function', handler')
               = Entry_(returned'.registry, returned'.name,
                        tools, usage_stats, function, handler)]_vars

\* ------------------------------------------------------------------- C28
\* the step invokes a capability through one of the registries
InvokesDirectly == returned'.op \in {"execute", "call_tool"}

\* C28: invoking a name that is not registered hands back an error result,
\* raises nothing and leaves the counters of every registered capability as
\* they were.
C28_UnknownNameLeavesCounters ==
  [][(InvokesDirectly /\ ~returned'.known)
       => /\ returned'.error
          /\ ~returned'.raised
          /\ UNCHANGED <<tools, usage_stats>>]_vars

\* an unknown name was invoked after other invocations were counted
C28_Witness ==
  /\ returned.op \in {"execute", "call_tool"}
  /\ ~returned.known
  /\ returned.error
  /\ TotalCalls > 0

\* ------------------------------------------------------------------- C29
\* the counters of the capability the step invoked, under common names
CountersOf(registry, name, t, u) ==
  IF registry = "agent"
    THEN [success |-> t["agent"][name].success_count,
          errors  |-> t["agent"][name].error_count]
    ELSE [success |-> u[name].success, errors |-> u[name].errors]

\* C29: when the result a registry hands back for a registered capability
\* carries an error, that invocation raised the capability's error counter
\* and not its success counter.
C29_ErrorResultNeverCountedAsSuccess ==
  [][(InvokesDirectly /\ returned'.known /\ returned'.error
        /\ <<tools', usage_stats'>> # <<tools, usage_stats>>)
       => LET before == CountersOf(returned'.registry, returned'.name,
                                   tools, usage_stats)
              after == CountersOf(returned'.registry, returned'.name,
                                  tools', usage_stats')
          IN /\ after.errors = before.errors + 1
             /\ after.success = before.success]_vars

\* ------------------------------------------------------------------- C27
\* C27: once every one of the concurrent invocations of a capability on the
\* shared registry has completed, its calls counter has grown by the number
\* of invocations and calls = success + errors.
C27_NoLostCounterUpdate ==
  (\A w \in Workers : workers[w].pc = "done")
    => /\ usage_stats[SharedTool].calls = MaxWorkers
       /\ usage_stats[SharedTool].calls
            = usage_stats[SharedTool].success + usage_stats[SharedTool].errors

====
